---- MODULE Spec2Model ----
(***************************************************************************)
(* Tick-Tock time tracking core: TimeRecord, SubActivity, Project and the  *)
(* ProjectDataManager (the Store) of src/src/tick_tock_widget/             *)
(* project_data.py, as a state machine.                                    *)
(*                                                                         *)
(* Time is an integer number of seconds; every operation reads the clock   *)
(* once.  The calendar day of an instant is  now \div DayLen.              *)
(***************************************************************************)
EXTENDS Integers, Sequences, FiniteSets, TLC

VARIABLES
    projects,                    \* ProjectDataManager.projects
    current_project_alias,       \* ProjectDataManager.current_project_alias
    current_sub_activity_alias,  \* ProjectDataManager.current_sub_activity_alias
    now,                         \* datetime.now(), in seconds
    last,                        \* the last step: its name, argument and result
    files,                       \* the data file of each environment
    backups,                     \* the backup directory: file name -> content
    data_file,                   \* ProjectDataManager.data_file (the environment it belongs to)
    last_save_time,              \* ProjectDataManager.last_save_time
    config,                      \* the configuration: max_backups, backup_enabled
    saved,                       \* history: the graph and selection each data file was last saved from
    prev_save,                   \* history: the latest save_projects(force=False) call
    saves,                       \* history: the number of successful saves
    made,                        \* history: the timestamps of the backups ever created
    mtime,                       \* st_mtime of each environment's data file
    rec,                         \* one TimeRecord on its own
    run_start,                   \* history: the instant rec's current run began
    expected,                    \* history: rec's initial total plus its finished runs
    pc                           \* where the UI thread and the tray thread are in a save

storeVars == <<projects, current_project_alias, current_sub_activity_alias>>
fileVars == <<files, backups, data_file, last_save_time, config, saved, prev_save, saves, made, mtime>>
recVars == <<rec, run_start, expected, pc>>
vars == <<storeVars, now, last, fileVars, recVars>>

(***************************************************************************)
(* Bounds of the model.                                                    *)
(***************************************************************************)
MaxProjects == 2     \* projects in the Store
MaxSubs == 2         \* sub-activities in the Store
MaxTime == 2         \* last clock instant
DayLen == 2          \* seconds in one calendar day of the model
MaxTotal == 1        \* no timer is started once the records have banked this much together
MaxRecTotal == 6     \* the TimeRecord on its own is not started once it has banked this much

(***************************************************************************)
(* Values.                                                                 *)
(***************************************************************************)
None == "None"                                     \* Python's None, for aliases
NoTime == [tag |-> "None"]                         \* Python's None, for last_started
Max(a, b) == IF a >= b THEN a ELSE b

\* the function f as an explicit table of its values: a list or dict of the
\* program holds its elements, it is not a rule recomputed on each access
Table(f) == f @@ f

\* datetime.isoformat() / datetime.fromisoformat(): the timestamp as a string
IsoFormat(t) == [tag |-> "iso", t |-> t]
FromIsoFormat(s) == s.t

\* round() of a whole number of seconds
Round(x) == x

\* date.today().isoformat(): the key of a day's record
DateOf(t) == t \div DayLen
Today == DateOf(now)

\* truth value of an Optional[str] in an `if`: None and "" are false
Truthy(s) == s # None /\ s # ""

\* str.strip() on the strings of the model
Strip(s) == IF s = " " THEN "" ELSE s

(***************************************************************************)
(* TimeRecord                                                              *)
(***************************************************************************)
TimeRecord(d) ==
    [date |-> d, total_seconds |-> 0, last_started |-> NoTime, is_running |-> FALSE,
     sub_activity_seconds |-> <<>>]

add_time(r, seconds) == [r EXCEPT !.total_seconds = @ + seconds]

\* get_current_total_seconds without the floor of one second
get_current_total_seconds_raw(r, t) ==
    IF r.is_running /\ r.last_started # NoTime
    THEN r.total_seconds + Round(t - FromIsoFormat(r.last_started))
    ELSE r.total_seconds

get_current_total_seconds(r, t) ==
    IF r.is_running /\ r.last_started # NoTime
    THEN r.total_seconds + Max(1, Round(t - FromIsoFormat(r.last_started)))
    ELSE r.total_seconds

start_timing(r, t) == [r EXCEPT !.is_running = TRUE, !.last_started = IsoFormat(t)]

stop_timing_raw_elapsed(r, t) ==
    IF r.is_running /\ r.last_started # NoTime
    THEN [add_time(r, Round(t - FromIsoFormat(r.last_started)))
             EXCEPT !.is_running = FALSE, !.last_started = NoTime]
    ELSE r

stop_timing(r, t) ==
    IF r.is_running /\ r.last_started # NoTime
    THEN [add_time(r, Max(1, Round(t - FromIsoFormat(r.last_started))))
             EXCEPT !.is_running = FALSE, !.last_started = NoTime]
    ELSE r

(***************************************************************************)
(* SubActivity / Project: date-keyed records                               *)
(***************************************************************************)
\* get_today_record(): the container's records with today's record created
\* when absent; the record itself is  get_today_record(recs, d)[d]
get_today_record(recs, d) ==
    IF d \in DOMAIN recs THEN recs ELSE recs @@ (d :> TimeRecord(d))

SubActivity(name, alias) == [name |-> name, alias |-> alias, time_records |-> <<>>]

Project(name, dz_number, alias) ==
    [name |-> name, dz_number |-> dz_number, alias |-> alias,
     sub_activities |-> <<>>, time_records |-> <<>>]

add_sub_activity(p, name, alias) ==
    [p EXCEPT !.sub_activities = Append(@, SubActivity(name, alias))]

\* index of the first element of seq whose alias is a, 0 when there is none
FirstIndex(seq, a) ==
    IF \E i \in 1..Len(seq) : seq[i].alias = a
    THEN CHOOSE i \in 1..Len(seq) :
            /\ seq[i].alias = a
            /\ \A j \in 1..(i - 1) : seq[j].alias # a
    ELSE 0

RemoveAt(seq, i) ==
    Table([j \in 1..(Len(seq) - 1) |-> IF j < i THEN seq[j] ELSE seq[j + 1]])

\* Project.get_sub_activity: index of the sub-activity, 0 for None
get_sub_activity(p, alias) == FirstIndex(p.sub_activities, alias)

remove_sub_activity(p, alias) ==
    IF get_sub_activity(p, alias) = 0 THEN p
    ELSE [p EXCEPT !.sub_activities = RemoveAt(@, get_sub_activity(p, alias))]

(***************************************************************************)
(* ProjectDataManager: queries                                             *)
(***************************************************************************)
\* get_project: index of the project, 0 for None
get_project(ps, alias) == FirstIndex(ps, alias)

get_current_project(ps, cpa) == IF Truthy(cpa) THEN get_project(ps, cpa) ELSE 0

\* stop_timing on today's record of a container, if it is running
StopToday(recs, t) ==
    LET rs == get_today_record(recs, DateOf(t))
    IN  IF rs[DateOf(t)].is_running
        THEN [rs EXCEPT ![DateOf(t)] = stop_timing(@, t)]
        ELSE rs

StartToday(recs, t) ==
    LET rs == get_today_record(recs, DateOf(t))
    IN  [rs EXCEPT ![DateOf(t)] = start_timing(@, t)]

\* stop_all_timers that leaves the sub-activities alone
stop_all_timers_projects_only(ps, t) ==
    Table([i \in 1..Len(ps) |-> [ps[i] EXCEPT !.time_records = StopToday(@, t)]])

stop_all_timers(ps, t) ==
    Table([i \in 1..Len(ps) |->
        [ps[i] EXCEPT
            !.time_records = StopToday(@, t),
            !.sub_activities =
                Table([k \in 1..Len(@) |->
                          [@[k] EXCEPT !.time_records = StopToday(@, t)]])]])

\* start_current_timer that starts every sub-activity of the project with the alias
StartCurrent_every_match(ps, i, csa, t) ==
    LET started == [ps EXCEPT ![i].time_records = StartToday(@, t)]
    IN  [started EXCEPT ![i].sub_activities =
            Table([k \in 1..Len(@) |->
                IF @[k].alias = csa THEN [@[k] EXCEPT !.time_records = StartToday(@, t)]
                ELSE @[k]])]

\* start_current_timer that starts the selected sub-activity instead of the project
StartCurrent_sub_only(ps, i, csa, t) ==
    LET k == IF Truthy(csa) THEN get_sub_activity(ps[i], csa) ELSE 0
    IN  IF k = 0 THEN [ps EXCEPT ![i].time_records = StartToday(@, t)]
        ELSE [ps EXCEPT ![i].sub_activities[k].time_records = StartToday(@, t)]

\* the projects after start_current_timer, given that the current project is ps[i]
StartCurrent(ps, i, csa, t) ==
    LET started == [ps EXCEPT ![i].time_records = StartToday(@, t)]
        k == IF Truthy(csa) THEN get_sub_activity(started[i], csa) ELSE 0
    IN  IF k = 0 THEN started
        ELSE [started EXCEPT ![i].sub_activities[k].time_records = StartToday(@, t)]

(***************************************************************************)
(* Inputs of the operations                                                *)
(***************************************************************************)
\* add_project(name, dz_number, alias): <<name, alias>>
ProjectInputs == {<<"alpha", "a">>, <<"b", " ">>}
ProjectAliases == {"a", "b"}
OneProject == {<<"alpha", "a">>}
\* the same with a project whose name and alias are both empty
BlankInputs == ProjectInputs \cup {<<"", "">>}
BlankAliases == ProjectAliases \cup {""}
\* Project.add_sub_activity(name, alias): the alias (the name is derived from it)
SubInputs == {"dev"}
\* set_current_sub_activity(alias)
SubAliases == {None, "dev", "x"}
Whitelist == {"sub1", "sub2", "sub3", "dev", "test", "debug"}

RECURSIVE SumSeq(_)
SumSeq(q) == IF q = <<>> THEN 0 ELSE Head(q) + SumSeq(Tail(q))

\* sub-activities in the whole Store
TotalSubs(ps) == SumSeq([i \in 1..Len(ps) |-> Len(ps[i].sub_activities)])

\* seconds banked by the records of a container
Banked(recs) ==
    LET RECURSIVE S(_)
        S(D) == IF D = {} THEN 0
                ELSE LET d == CHOOSE e \in D : TRUE IN recs[d].total_seconds + S(D \ {d})
    IN  S(DOMAIN recs)

\* seconds banked by every record of the graph
TotalBanked(ps) ==
    SumSeq([i \in 1..Len(ps) |->
        Banked(ps[i].time_records) +
        SumSeq([k \in 1..Len(ps[i].sub_activities) |->
                    Banked(ps[i].sub_activities[k].time_records)])])

(***************************************************************************)
(* Where the records of the graph are: <<i, 0, d>> is the record of day d  *)
(* of project i, <<i, k, d>> the one of its k-th sub-activity.             *)
(***************************************************************************)
Locs(ps) ==
    {<<i, 0, d>> : i \in 1..Len(ps), d \in 0..DateOf(MaxTime)} \cup
    {<<i, k, d>> : i \in 1..Len(ps), k \in 1..MaxSubs, d \in 0..DateOf(MaxTime)}

RecordsAt(ps, loc) ==
    IF loc[2] = 0 THEN ps[loc[1]].time_records
    ELSE IF loc[2] <= Len(ps[loc[1]].sub_activities)
    THEN ps[loc[1]].sub_activities[loc[2]].time_records
    ELSE <<>>

\* the records that are running
Running(ps) ==
    {loc \in Locs(ps) :
        /\ loc[3] \in DOMAIN RecordsAt(ps, loc)
        /\ RecordsAt(ps, loc)[loc[3]].is_running}

\* the record of an operation: its name, its argument and its result
Op(name, arg, ret) == [name |-> name, arg |-> arg, ret |-> ret, raised |-> FALSE]

\* the record of set_current_project, with the selection it found
OpSelect(alias, ret) ==
    [name |-> "set_current_project", arg |-> alias, ret |-> ret, raised |-> FALSE,
     before |-> <<current_project_alias, current_sub_activity_alias>>]

\* the record of remove_project, with the selection it found
OpRemove(alias, ret) ==
    [name |-> "remove_project", arg |-> alias, ret |-> ret, raised |-> FALSE,
     before |-> <<current_project_alias, current_sub_activity_alias>>]

(***************************************************************************)
(* The persisted file format (json.dump / json.load of the Store's graph)  *)
(***************************************************************************)
Envs == {"development", "production"}

\* JSON null for None
JsonNull == [tag |-> "null"]
TimeToJson(t) == IF t = NoTime THEN JsonNull ELSE t
TimeFromJson(j) == IF j = JsonNull THEN NoTime ELSE j
AliasToJson(a) == IF a = None THEN "null" ELSE a
AliasFromJson(j) == IF j = "null" THEN None ELSE j

\* dataclasses.asdict(record)
asdict(r) ==
    [date |-> r.date, total_seconds |-> r.total_seconds,
     last_started |-> TimeToJson(r.last_started), is_running |-> r.is_running,
     sub_activity_seconds |-> r.sub_activity_seconds]

RecordsToDict(recs) == Table([d \in DOMAIN recs |-> asdict(recs[d])])

\* _project_to_dict that writes the project's records for every sub-activity
_project_to_dict_project_records(p) ==
    [name |-> p.name, dz_number |-> p.dz_number, alias |-> p.alias,
     sub_activities |->
        Table([k \in 1..Len(p.sub_activities) |->
            [name |-> p.sub_activities[k].name, alias |-> p.sub_activities[k].alias,
             time_records |-> RecordsToDict(p.time_records)]]),
     time_records |-> RecordsToDict(p.time_records)]

_project_to_dict(p) ==
    [name |-> p.name, dz_number |-> p.dz_number, alias |-> p.alias,
     sub_activities |->
        Table([k \in 1..Len(p.sub_activities) |->
            [name |-> p.sub_activities[k].name, alias |-> p.sub_activities[k].alias,
             time_records |-> RecordsToDict(p.sub_activities[k].time_records)]]),
     time_records |-> RecordsToDict(p.time_records)]

\* the document save_projects writes at instant t
Document(ps, cpa, csa, t, env) ==
    [projects |-> Table([i \in 1..Len(ps) |-> _project_to_dict(ps[i])]),
     current_project_alias |-> AliasToJson(cpa),
     current_sub_activity_alias |-> AliasToJson(csa),
     last_saved |-> IsoFormat(t),
     environment |-> env]

\* contents of a file
Absent == [kind |-> "absent"]
Json(data) == [kind |-> "json", data |-> data]
Garbage == [kind |-> "garbage"]                \* not JSON: cut short, or overwritten
\* well-formed JSON whose one project entry lacks required fields
MissingField ==
    Json([projects |-> <<[name |-> "alpha"]>>,
          current_project_alias |-> "null", current_sub_activity_alias |-> "null"])
\* well-formed JSON without the 'projects' key
NoProjectsKey ==
    Json([current_project_alias |-> "a", current_sub_activity_alias |-> "null"])
Malformed == {Garbage, MissingField}

\* TimeRecord(**record_data) with record_data['date'] = date_str
RecordsFromDict(recs) ==
    Table([d \in DOMAIN recs |->
        [date |-> d, total_seconds |-> recs[d].total_seconds,
         last_started |-> TimeFromJson(recs[d].last_started),
         is_running |-> recs[d].is_running,
         sub_activity_seconds |-> recs[d].sub_activity_seconds]])

ProjectFields == {"name", "dz_number", "alias", "sub_activities", "time_records"}

\* Project(**proj_data) raises TypeError unless the entry has exactly the fields
ProjectEntryOk(d) == DOMAIN d = ProjectFields

\* Project.__post_init__ / SubActivity.__post_init__
ProjectFromDict(d) ==
    [name |-> d.name, dz_number |-> d.dz_number, alias |-> d.alias,
     sub_activities |->
        Table([k \in 1..Len(d.sub_activities) |->
            [name |-> d.sub_activities[k].name, alias |-> d.sub_activities[k].alias,
             time_records |-> RecordsFromDict(d.sub_activities[k].time_records)]]),
     time_records |-> RecordsFromDict(d.time_records)]

\* dict.get(key): None when the key is absent
DictGet(data, key) == IF key \in DOMAIN data THEN AliasFromJson(data[key]) ELSE None

(***************************************************************************)
(* Backups                                                                 *)
(***************************************************************************)
AutoSaveInterval == 2     \* config.get_auto_save_interval(), in seconds of the model
MaxBackups == 2           \* largest max_backups of the configurations explored
MaxSaves == 3             \* successful saves in one behaviour

\* datetime.now().strftime("%Y%m%d_%H%M%S"): the instant to the second
Timestamp(t) == t

\* "<stem>_backup_<timestamp>.json"
BackupName(stem, t) == [stem |-> stem, ts |-> Timestamp(t), fmt |-> "strftime"]

\* "<stem>_backup_<int(st_mtime)>.json", the name migrate_data_file gives
EpochName(stem, m) == [stem |-> stem, ts |-> m, fmt |-> "epoch"]

\* the order of the file names: seconds since 1970 ("17...") sort before
\* dates ("20..."), and names of one kind sort by their time
NameBefore(n, o) == IF n.fmt = o.fmt THEN n.ts <= o.ts ELSE n.fmt = "epoch"

\* backup_dir.glob("<stem>_backup_*.json")
BackupsOf(dir, stem) == {n \in DOMAIN dir : n.stem = stem}

\* sorted(...): the names in ascending order
RECURSIVE Sorted(_)
Sorted(S) ==
    IF S = {} THEN <<>>
    ELSE LET m == CHOOSE n \in S : \A o \in S : NameBefore(n, o)
         IN  <<m>> \o Sorted(S \ {m})

\* backup_files[:-max_backups]  (-0 is 0: the slice [:0] is empty)
OldBackups(backup_files, max_backups) ==
    IF max_backups = 0 THEN <<>>
    ELSE SubSeq(backup_files, 1, Len(backup_files) - max_backups)

Range(q) == {q[i] : i \in 1..Len(q)}

_cleanup_old_backups(dir, stem, max_backups, fault) ==
    LET backup_files == Sorted(BackupsOf(dir, stem))
    IN  IF Len(backup_files) > max_backups /\ fault # "cleanup"
        THEN Table([n \in DOMAIN dir \ Range(OldBackups(backup_files, max_backups)) |->
                       dir[n]])
        ELSE dir

\* shutil.copy2(data_file, backup_path), then the cleanup
_create_backup(dir, stem, content, t, max_backups, fault) ==
    IF fault = "backup" THEN dir
    ELSE _cleanup_old_backups(
            Table([n \in DOMAIN dir \cup {BackupName(stem, t)} |->
                IF n = BackupName(stem, t) THEN content ELSE dir[n]]),
            stem, max_backups, fault)

\* where an I/O error strikes a save, if anywhere
Faults == {"none", "backup", "cleanup", "open", "write"}

NoGraph == [tag |-> "None"]
Graph(ps, cpa, csa) ==
    [projects |-> ps, current_project_alias |-> cpa, current_sub_activity_alias |-> csa]

NoCall == [tag |-> "None"]

NoRun == <<>>

\* the UI thread (tkinter's main loop) and the thread of the tray icon
Threads == {"ui", "tray"}
\* a thread that is not inside save_projects
At(where) == [at |-> where, t |-> 0, graph |-> NoGraph, overlapped |-> FALSE]

(***************************************************************************)
(* ProjectDataManager: operations                                         *)
(***************************************************************************)
DefaultConfig == [max_backups |-> MaxBackups, backup_enabled |-> TRUE, environment |-> "development"]

\* ProjectDataManager.__init__ at instant 0, with no data file on disk, and a
\* TimeRecord r on its own
InitWith(cfg, r) ==
    /\ projects = <<>>
    /\ current_project_alias = None
    /\ current_sub_activity_alias = None
    /\ now = 0
    /\ last = Op("init", None, TRUE)
    /\ files = Table([e \in Envs |-> Absent])
    /\ backups = <<>>
    /\ data_file = cfg.environment
    /\ last_save_time = 0 - (AutoSaveInterval + 1)
    /\ config = cfg
    /\ saved = Table([e \in Envs |-> NoGraph])
    /\ prev_save = NoCall
    /\ saves = 0
    /\ made = {}
    /\ mtime = Table([e \in Envs |-> 0])
    /\ rec = r
    /\ run_start = NoRun
    /\ expected = r.total_seconds
    /\ pc = Table([th \in Threads |-> At("idle")])

Init == InitWith(DefaultConfig, TimeRecord(0))

\* the clock advances
Tick ==
    /\ now < MaxTime
    /\ now' = now + 1
    /\ last' = Op("tick", None, TRUE)
    /\ UNCHANGED <<storeVars, fileVars, recVars>>

\* add_project that does not look for the alias in the Store
AddProject_allows_duplicates(inputs) ==
    \E inp \in inputs :
        LET name == inp[1]
            alias == IF Strip(inp[2]) = "" THEN name ELSE inp[2]
        IN  /\ Len(projects) < MaxProjects
            /\ projects' = Append(projects, Project(name, "DZ", alias))
            /\ last' = Op("add_project", None, TRUE)
            /\ UNCHANGED <<current_project_alias, current_sub_activity_alias, now, fileVars, recVars>>

AddProject(inputs) ==
    \E inp \in inputs :
        LET name == inp[1]
            alias == IF Strip(inp[2]) = "" THEN name ELSE inp[2]
        IN  /\ Len(projects) < MaxProjects
            /\ IF get_project(projects, alias) # 0
               THEN /\ projects' = projects
                    /\ last' = Op("add_project", None, FALSE)
               ELSE /\ projects' = Append(projects, Project(name, "DZ", alias))
                    /\ last' = Op("add_project", None, TRUE)
            /\ UNCHANGED <<current_project_alias, current_sub_activity_alias, now, fileVars, recVars>>

\* remove_project that leaves the selection pointers alone
RemoveProject_keeps_selection(aliases) ==
    \E alias \in aliases :
        LET i == get_project(projects, alias)
        IN  /\ IF i = 0
               THEN /\ UNCHANGED projects
                    /\ last' = OpRemove(alias, FALSE)
               ELSE /\ projects' = RemoveAt(projects, i)
                    /\ last' = OpRemove(alias, TRUE)
            /\ UNCHANGED <<current_project_alias, current_sub_activity_alias, now, fileVars, recVars>>

\* ProjectDataManager.remove_project
RemoveProject(aliases) ==
    \E alias \in aliases :
        LET i == get_project(projects, alias)
        IN  /\ IF i = 0
               THEN /\ UNCHANGED <<projects, current_project_alias, current_sub_activity_alias>>
                    /\ last' = OpRemove(alias, FALSE)
               ELSE /\ projects' = RemoveAt(projects, i)
                    /\ IF current_project_alias = alias
                       THEN /\ current_project_alias' = None
                            /\ current_sub_activity_alias' = None
                       ELSE UNCHANGED <<current_project_alias, current_sub_activity_alias>>
                    /\ last' = OpRemove(alias, TRUE)
            /\ UNCHANGED <<now, fileVars, recVars>>

\* Project.add_sub_activity on the i-th project
AddSubActivity ==
    \E i \in 1..Len(projects), alias \in SubInputs :
        /\ TotalSubs(projects) < MaxSubs
        /\ projects' = [projects EXCEPT ![i] = add_sub_activity(@, alias, alias)]
        /\ last' = Op("add_sub_activity", None, TRUE)
        /\ UNCHANGED <<current_project_alias, current_sub_activity_alias, now, fileVars, recVars>>

\* Project.remove_sub_activity on the i-th project
RemoveSubActivity ==
    \E i \in 1..Len(projects), alias \in SubInputs :
        /\ projects' = [projects EXCEPT ![i] = remove_sub_activity(@, alias)]
        /\ last' = Op("remove_sub_activity", None, get_sub_activity(projects[i], alias) # 0)
        /\ UNCHANGED <<current_project_alias, current_sub_activity_alias, now, fileVars, recVars>>

\* set_current_project that keeps the sub-activity selection
SetCurrentProject_keeps_sub(aliases) ==
    \E alias \in aliases :
        /\ IF get_project(projects, alias) # 0
           THEN /\ current_project_alias' = alias
                /\ current_sub_activity_alias' = current_sub_activity_alias
                /\ last' = OpSelect(alias, TRUE)
           ELSE /\ UNCHANGED <<current_project_alias, current_sub_activity_alias>>
                /\ last' = OpSelect(alias, FALSE)
        /\ UNCHANGED <<projects, now, fileVars, recVars>>

SetCurrentProject(aliases) ==
    \E alias \in aliases :
        /\ IF get_project(projects, alias) # 0
           THEN /\ current_project_alias' = alias
                /\ current_sub_activity_alias' = None
                /\ last' = OpSelect(alias, TRUE)
           ELSE /\ UNCHANGED <<current_project_alias, current_sub_activity_alias>>
                /\ last' = OpSelect(alias, FALSE)
        /\ UNCHANGED <<projects, now, fileVars, recVars>>

SetCurrentSubActivity ==
    \E alias \in SubAliases :
        LET i == get_current_project(projects, current_project_alias)
        IN  /\ IF alias = None
               THEN /\ current_sub_activity_alias' = None
                    /\ projects' = projects
                    /\ last' = Op("set_current_sub_activity", alias, TRUE)
               ELSE IF i = 0
               THEN /\ UNCHANGED <<projects, current_sub_activity_alias>>
                    /\ last' = Op("set_current_sub_activity", alias, FALSE)
               ELSE IF get_sub_activity(projects[i], alias) # 0
               THEN /\ current_sub_activity_alias' = alias
                    /\ projects' = projects
                    /\ last' = Op("set_current_sub_activity", alias, TRUE)
               ELSE IF alias \in Whitelist /\ TotalSubs(projects) < MaxSubs
               THEN /\ projects' = [projects EXCEPT ![i] = add_sub_activity(@, alias, alias)]
                    /\ current_sub_activity_alias' = alias
                    /\ last' = Op("set_current_sub_activity", alias, TRUE)
               ELSE /\ alias \notin Whitelist
                    /\ UNCHANGED <<projects, current_sub_activity_alias>>
                    /\ last' = Op("set_current_sub_activity", alias, FALSE)
            /\ UNCHANGED <<current_project_alias, now, fileVars, recVars>>

StartCurrentTimer ==
    LET stopped == stop_all_timers(projects, now)
        i == get_current_project(stopped, current_project_alias)
    IN  /\ TotalBanked(projects) < MaxTotal
        /\ IF i = 0
           THEN /\ projects' = stopped
                /\ last' = Op("start_current_timer", None, FALSE)
           ELSE /\ projects' = StartCurrent(stopped, i, current_sub_activity_alias, now)
                /\ last' = Op("start_current_timer", None, TRUE)
        /\ UNCHANGED <<current_project_alias, current_sub_activity_alias, now, fileVars, recVars>>

StopAllTimers ==
    /\ projects' = stop_all_timers(projects, now)
    /\ last' = Op("stop_all_timers", None, TRUE)
    /\ UNCHANGED <<current_project_alias, current_sub_activity_alias, now, fileVars, recVars>>

\* the Store with its timers and the clock
Next ==
    \/ Tick
    \/ AddProject(ProjectInputs)
    \/ RemoveProject(ProjectAliases)
    \/ AddSubActivity
    \/ SetCurrentProject(ProjectAliases)
    \/ SetCurrentSubActivity
    \/ StartCurrentTimer
    \/ StopAllTimers

Spec == Init /\ [][Next]_vars

\* the Store's projects, sub-activities and selection, with no clock
NextSelect ==
    \/ AddProject(BlankInputs)
    \/ RemoveProject(BlankAliases)
    \/ AddSubActivity
    \/ RemoveSubActivity
    \/ SetCurrentProject(BlankAliases)
    \/ SetCurrentSubActivity

SpecSelect == Init /\ [][NextSelect]_vars

(***************************************************************************)
(* ProjectDataManager: persistence                                         *)
(***************************************************************************)
Exists(f) == f.kind # "absent"

\* the debounce that lets force through only with the others
Debounced_ignores_force(force, t, saved_at) == (t - saved_at) < AutoSaveInterval

\* not force and (now - self.last_save_time).total_seconds() < self.auto_save_interval
Debounced(force, t, saved_at) == ~force /\ (t - saved_at) < AutoSaveInterval

\* save_projects that stamps last_save_time before it writes
SaveProjects_stamps_first(force, fault) ==
    LET debounced == Debounced(force, now, last_save_time)
        content == files[data_file]
        backing == config.backup_enabled /\ Exists(content)
        ret == ~debounced /\ fault \notin {"open", "write"}
    IN  /\ saves < MaxSaves
        /\ IF debounced
           THEN UNCHANGED <<files, backups, last_save_time, saved, made, mtime>>
           ELSE /\ backups' = IF backing
                              THEN _create_backup(backups, data_file, content, now,
                                                  config.max_backups, fault)
                              ELSE backups
                /\ made' = IF backing /\ fault # "backup"
                           THEN made \cup {Timestamp(now)} ELSE made
                /\ mtime' = IF fault = "open" THEN mtime
                            ELSE [mtime EXCEPT ![data_file] = now]
                /\ IF fault = "open"
                   THEN /\ UNCHANGED <<files, saved>>
                        /\ last_save_time' = now
                   ELSE IF fault = "write"
                   THEN /\ files' = [files EXCEPT ![data_file] = Garbage]
                        /\ saved' = [saved EXCEPT ![data_file] = NoGraph]
                        /\ last_save_time' = now
                   ELSE /\ files' = [files EXCEPT ![data_file] =
                                Json(Document(projects, current_project_alias,
                                              current_sub_activity_alias, now,
                                              config.environment))]
                        /\ saved' = [saved EXCEPT ![data_file] =
                                Graph(projects, current_project_alias,
                                      current_sub_activity_alias)]
                        /\ last_save_time' = now
        /\ saves' = IF ret THEN saves + 1 ELSE saves
        /\ last' = Op("save_projects", force, ret)
        /\ prev_save' = IF force THEN prev_save
                        ELSE [t |-> now, ret |-> ret, failed |-> ~debounced /\ ~ret]
        /\ UNCHANGED <<storeVars, now, data_file, config, recVars>>

\* save_projects that gives up when its backup fails
SaveProjects_backup_aborts(force, fault) ==
    LET debounced == Debounced(force, now, last_save_time)
        content == files[data_file]
        backing == config.backup_enabled /\ Exists(content)
        ret == ~debounced /\ fault = "none"
    IN  /\ saves < MaxSaves
        /\ IF debounced
           THEN UNCHANGED <<files, backups, last_save_time, saved, made, mtime>>
           ELSE /\ backups' = IF backing
                              THEN _create_backup(backups, data_file, content, now,
                                                  config.max_backups, fault)
                              ELSE backups
                /\ made' = IF backing /\ fault # "backup"
                           THEN made \cup {Timestamp(now)} ELSE made
                /\ mtime' = IF fault \in {"open", "backup", "cleanup"} THEN mtime
                            ELSE [mtime EXCEPT ![data_file] = now]
                /\ IF fault \in {"open", "backup", "cleanup"}
                   THEN UNCHANGED <<files, last_save_time, saved>>
                   ELSE IF fault = "write"
                   THEN /\ files' = [files EXCEPT ![data_file] = Garbage]
                        /\ saved' = [saved EXCEPT ![data_file] = NoGraph]
                        /\ UNCHANGED last_save_time
                   ELSE /\ files' = [files EXCEPT ![data_file] =
                                Json(Document(projects, current_project_alias,
                                              current_sub_activity_alias, now,
                                              config.environment))]
                        /\ saved' = [saved EXCEPT ![data_file] =
                                Graph(projects, current_project_alias,
                                      current_sub_activity_alias)]
                        /\ last_save_time' = now
        /\ saves' = IF ret THEN saves + 1 ELSE saves
        /\ last' = Op("save_projects", force, ret)
        /\ prev_save' = IF force THEN prev_save
                        ELSE [t |-> now, ret |-> ret, failed |-> ~debounced /\ ~ret]
        /\ UNCHANGED <<storeVars, now, data_file, config, recVars>>

\* save_projects that takes its backup after it has written the data file
SaveProjects_backs_up_after(force, fault) ==
    LET debounced == Debounced(force, now, last_save_time)
        content == Json(Document(projects, current_project_alias,
                                 current_sub_activity_alias, now, config.environment))
        backing == config.backup_enabled /\ Exists(files[data_file])
        ret == ~debounced /\ fault \notin {"open", "write"}
    IN  /\ saves < MaxSaves
        /\ IF debounced
           THEN UNCHANGED <<files, backups, last_save_time, saved, made, mtime>>
           ELSE /\ backups' = IF backing
                              THEN _create_backup(backups, data_file, content, now,
                                                  config.max_backups, fault)
                              ELSE backups
                /\ made' = IF backing /\ fault # "backup"
                           THEN made \cup {Timestamp(now)} ELSE made
                /\ mtime' = IF fault = "open" THEN mtime
                            ELSE [mtime EXCEPT ![data_file] = now]
                /\ IF fault = "open"
                   THEN UNCHANGED <<files, last_save_time, saved>>
                   ELSE IF fault = "write"
                   THEN /\ files' = [files EXCEPT ![data_file] = Garbage]
                        /\ saved' = [saved EXCEPT ![data_file] = NoGraph]
                        /\ UNCHANGED last_save_time
                   ELSE /\ files' = [files EXCEPT ![data_file] =
                                Json(Document(projects, current_project_alias,
                                              current_sub_activity_alias, now,
                                              config.environment))]
                        /\ saved' = [saved EXCEPT ![data_file] =
                                Graph(projects, current_project_alias,
                                      current_sub_activity_alias)]
                        /\ last_save_time' = now
        /\ saves' = IF ret THEN saves + 1 ELSE saves
        /\ last' = Op("save_projects", force, ret)
        /\ prev_save' = IF force THEN prev_save
                        ELSE [t |-> now, ret |-> ret, failed |-> ~debounced /\ ~ret]
        /\ UNCHANGED <<storeVars, now, data_file, config, recVars>>

\* save_projects(force), with an I/O error striking at `fault`
SaveProjects(force, fault) ==
    LET debounced == Debounced(force, now, last_save_time)
        content == files[data_file]
        backing == config.backup_enabled /\ Exists(content)
        ret == ~debounced /\ fault \notin {"open", "write"}
    IN  /\ saves < MaxSaves
        /\ IF debounced
           THEN UNCHANGED <<files, backups, last_save_time, saved, made, mtime>>
           ELSE /\ backups' = IF backing
                              THEN _create_backup(backups, data_file, content, now,
                                                  config.max_backups, fault)
                              ELSE backups
                /\ made' = IF backing /\ fault # "backup"
                           THEN made \cup {Timestamp(now)} ELSE made
                /\ mtime' = IF fault = "open" THEN mtime
                            ELSE [mtime EXCEPT ![data_file] = now]
                /\ IF fault = "open"
                   THEN UNCHANGED <<files, last_save_time, saved>>
                   ELSE IF fault = "write"
                   THEN /\ files' = [files EXCEPT ![data_file] = Garbage]
                        /\ saved' = [saved EXCEPT ![data_file] = NoGraph]
                        /\ UNCHANGED last_save_time
                   ELSE /\ files' = [files EXCEPT ![data_file] =
                                Json(Document(projects, current_project_alias,
                                              current_sub_activity_alias, now,
                                              config.environment))]
                        /\ saved' = [saved EXCEPT ![data_file] =
                                Graph(projects, current_project_alias,
                                      current_sub_activity_alias)]
                        /\ last_save_time' = now
        /\ saves' = IF ret THEN saves + 1 ELSE saves
        /\ last' = Op("save_projects", force, ret)
        /\ prev_save' = IF force THEN prev_save
                        ELSE [t |-> now, ret |-> ret, failed |-> ~debounced /\ ~ret]
        /\ UNCHANGED <<storeVars, now, data_file, config, recVars>>

Save == \E force \in BOOLEAN, fault \in Faults : SaveProjects(force, fault)

\* load_projects(); last.raised tells that an exception left the call
LoadProjects ==
    LET content == files[data_file]
    IN  /\ IF ~Exists(content)
           THEN /\ UNCHANGED storeVars
                /\ last' = Op("load_projects", None, FALSE)
           ELSE IF content.kind # "json"
           THEN /\ UNCHANGED storeVars                      \* json.JSONDecodeError
                /\ last' = Op("load_projects", None, FALSE)
           ELSE IF "projects" \in DOMAIN content.data
                   /\ \E i \in 1..Len(content.data.projects) :
                         ~ProjectEntryOk(content.data.projects[i])
           THEN /\ UNCHANGED storeVars                      \* TypeError, not caught
                /\ last' = [Op("load_projects", None, FALSE) EXCEPT !.raised = TRUE]
           ELSE /\ projects' =
                       IF "projects" \in DOMAIN content.data
                       THEN Table([i \in 1..Len(content.data.projects) |->
                                      ProjectFromDict(content.data.projects[i])])
                       ELSE projects
                /\ current_project_alias' = DictGet(content.data, "current_project_alias")
                /\ current_sub_activity_alias' =
                       DictGet(content.data, "current_sub_activity_alias")
                /\ last' = Op("load_projects", None, TRUE)
        /\ UNCHANGED <<now, fileVars, recVars>>

\* a fresh ProjectDataManager on the same data file (the process starts again)
NewStore ==
    /\ projects' = <<>>
    /\ current_project_alias' = None
    /\ current_sub_activity_alias' = None
    /\ last_save_time' = now - (AutoSaveInterval + 1)
    /\ prev_save' = NoCall
    /\ last' = Op("init", None, TRUE)
    /\ UNCHANGED <<now, files, backups, data_file, config, saved, saves, made, mtime, recVars>>

\* the data file is damaged from outside the Store
Corrupt ==
    \E bad \in Malformed :
        /\ Exists(files[data_file])
        /\ files[data_file] # bad
        /\ files' = [files EXCEPT ![data_file] = bad]
        /\ mtime' = [mtime EXCEPT ![data_file] = now]
        /\ saved' = [saved EXCEPT ![data_file] = NoGraph]
        /\ last' = Op("corrupt", None, TRUE)
        /\ UNCHANGED <<storeVars, now, backups, data_file, last_save_time, config,
                       prev_save, saves, made, recVars>>

\* a successful forced save
SaveNow == SaveProjects(TRUE, "none")

(***************************************************************************)
(* The round trip: a graph is built while there is no data file, then it   *)
(* is saved and loaded, by the same Store or by a fresh one.               *)
(***************************************************************************)
NextRoundTrip ==
    \/ /\ ~Exists(files[data_file])
       /\ \/ Tick
          \/ AddProject(ProjectInputs)
          \/ SetCurrentProject(ProjectAliases)
          \/ SetCurrentSubActivity
          \/ StartCurrentTimer
          \/ StopAllTimers
          \/ SaveNow
    \/ NewStore
    \/ LoadProjects

SpecRoundTrip == Init /\ [][NextRoundTrip]_vars

(***************************************************************************)
(* Saving over time: debounce, backups, damaged files, under every         *)
(* configuration of the backups.                                           *)
(***************************************************************************)
Configs ==
    {cfg \in [max_backups : 0..MaxBackups, backup_enabled : BOOLEAN,
              environment : {"development"}] :
        cfg.backup_enabled \/ cfg.max_backups = MaxBackups}

InitPersist == \E cfg \in Configs : InitWith(cfg, TimeRecord(0))

NextPersist ==
    \/ Tick
    \/ AddProject(OneProject)
    \/ Save
    \/ LoadProjects
    \/ NewStore
    \/ Corrupt

SpecPersist == InitPersist /\ [][NextPersist]_vars

(***************************************************************************)
(* Environments: each has its own data file; switch_environment saves,     *)
(* moves the Store to the target's file and loads it.                      *)
(***************************************************************************)
\* the data file of environment e after save_projects(force=True) on it
FileAfterSave(e, fault) ==
    IF fault = "open" THEN files[e]
    ELSE IF fault = "write" THEN Garbage
    ELSE Json(Document(projects, current_project_alias, current_sub_activity_alias,
                       now, config.environment))

\* switch_environment that never starts fresh
StartsFresh_never(success, exists) == FALSE

\* if not success and not self.data_file.exists()
StartsFresh(success, exists) == ~success /\ ~exists

\* the record of switch_environment: the target, the result, the environment
\* and the graph it was called in, whether the target had a data file when it
\* was called, and whether load_projects found one
OpSwitch(target, ret, raised, found) ==
    [name |-> "switch_environment", arg |-> target, ret |-> ret, raised |-> raised,
     from |-> data_file,
     before |-> Graph(projects, current_project_alias, current_sub_activity_alias),
     had_file |-> Exists(files[target]),
     found |-> found]

\* switch_environment(target), with an I/O error striking its save at `fault`
SwitchEnvironment(target, fault) ==
    LET content == files[data_file]
        backing == config.backup_enabled /\ Exists(content)
        wrote == fault \notin {"open", "write"}
        written == [files EXCEPT ![data_file] = FileAfterSave(data_file, fault)]
        loading == written[target]
        decodes == Exists(loading) /\ loading.kind = "json"
        bad == decodes /\ "projects" \in DOMAIN loading.data
                  /\ \E i \in 1..Len(loading.data.projects) :
                        ~ProjectEntryOk(loading.data.projects[i])
        success == decodes /\ ~bad
        fresh == StartsFresh(success, Exists(loading))
    IN  /\ saves < MaxSaves
        /\ backups' = IF backing
                      THEN _create_backup(backups, data_file, content, now,
                                          config.max_backups, fault)
                      ELSE backups
        /\ made' = IF backing /\ fault # "backup" THEN made \cup {Timestamp(now)} ELSE made
        /\ files' = written
        /\ mtime' = IF fault = "open" THEN mtime ELSE [mtime EXCEPT ![data_file] = now]
        /\ saved' = IF fault = "open" THEN saved
                    ELSE [saved EXCEPT ![data_file] =
                            IF wrote
                            THEN Graph(projects, current_project_alias,
                                       current_sub_activity_alias)
                            ELSE NoGraph]
        /\ last_save_time' = IF wrote THEN now ELSE last_save_time
        /\ saves' = IF wrote THEN saves + 1 ELSE saves
        /\ config' = [config EXCEPT !.environment = target]
        /\ data_file' = target
        /\ IF success
           THEN /\ projects' =
                       IF "projects" \in DOMAIN loading.data
                       THEN Table([i \in 1..Len(loading.data.projects) |->
                                      ProjectFromDict(loading.data.projects[i])])
                       ELSE projects
                /\ current_project_alias' = DictGet(loading.data, "current_project_alias")
                /\ current_sub_activity_alias' =
                       DictGet(loading.data, "current_sub_activity_alias")
           ELSE IF fresh
           THEN /\ projects' = <<>>
                /\ current_project_alias' = None
                /\ current_sub_activity_alias' = None
           ELSE UNCHANGED storeVars
        /\ last' = OpSwitch(target, ~bad /\ (success \/ fresh), bad,   \* TypeError, not caught
                            Exists(loading))
        /\ UNCHANGED <<now, prev_save, recVars>>

\* a data file is written by something other than this Store
Foreign(docs) ==
    \E e \in Envs, doc \in docs :
        /\ files[e] # doc
        /\ files' = [files EXCEPT ![e] = doc]
        /\ mtime' = [mtime EXCEPT ![e] = now]
        /\ saved' = [saved EXCEPT ![e] = NoGraph]
        /\ last' = Op("foreign", None, TRUE)
        /\ UNCHANGED <<storeVars, now, backups, data_file, last_save_time, config,
                       prev_save, saves, made, recVars>>

NextEnv ==
    \/ AddProject(OneProject)
    \/ SetCurrentProject(ProjectAliases)
    \/ SetCurrentSubActivity
    \/ LoadProjects
    \/ Foreign(Malformed \cup {NoProjectsKey})
    \/ \E target \in Envs, fault \in Faults : SwitchEnvironment(target, fault)

\* backups are switched off here: they play no part in the choice of the file
InitEnv == InitWith([DefaultConfig EXCEPT !.backup_enabled = FALSE], TimeRecord(0))

SpecEnv == InitEnv /\ [][NextEnv]_vars

(***************************************************************************)
(* Config.migrate_data_file: one environment's data file is copied over    *)
(* another's.                                                              *)
(***************************************************************************)
\* where an I/O error strikes a migration, if anywhere
MigrateFaults == {"none", "rename", "copy"}

\* Path.rename onto an existing path replaces it on POSIX and raises
\* FileExistsError on Windows
Platforms == {"posix", "nt"}

\* the record of migrate_data_file: the two environments, the result, and
\* what it found on disk
OpMigrate(source_env, target_env, ret) ==
    [name |-> "migrate_data_file", arg |-> <<source_env, target_env>>, ret |-> ret,
     raised |-> FALSE,
     had_source |-> Exists(files[source_env]),
     had_target |-> Exists(files[target_env]),
     backing |-> config.backup_enabled]

\* migrate_data_file that backs the target up before it looks at the source
Migrate_backs_up_first(source_env, target_env, platform, fault) ==
    LET backup_name == EpochName(target_env, mtime[target_env])
    IN  /\ Cardinality(DOMAIN backups) <= MaxBackups
        /\ IF Exists(files[target_env])
           THEN /\ backups' = (backup_name :> files[target_env]) @@ backups
                /\ files' = [files EXCEPT ![target_env] = Absent]
                /\ saved' = [saved EXCEPT ![target_env] = NoGraph]
           ELSE UNCHANGED <<files, backups, saved>>
        /\ last' = OpMigrate(source_env, target_env, FALSE)
        /\ UNCHANGED <<storeVars, now, data_file, last_save_time, config, prev_save,
                       saves, made, mtime, recVars>>

\* Config.migrate_data_file(source_env, target_env)
Migrate(source_env, target_env, platform, fault) ==
    LET backing == Exists(files[target_env]) /\ config.backup_enabled
        backup_name == EpochName(target_env, mtime[target_env])
        taken == backup_name \in DOMAIN backups /\ platform = "nt"     \* FileExistsError
        renamed == backing /\ fault # "rename" /\ ~taken
        moved == IF renamed THEN [files EXCEPT ![target_env] = Absent] ELSE files
        copied == /\ ~backing \/ renamed
                  /\ fault # "copy"
                  /\ Exists(moved[source_env])           \* else FileNotFoundError
                  /\ source_env # target_env             \* else shutil.SameFileError
    IN  /\ Cardinality(DOMAIN backups) <= MaxBackups
        /\ IF ~Exists(files[source_env])
           THEN /\ last' = OpMigrate(source_env, target_env, FALSE)
                /\ UNCHANGED <<storeVars, now, fileVars, recVars>>
           ELSE /\ backups' = IF renamed
                              THEN (backup_name :> files[target_env]) @@ backups
                              ELSE backups
                /\ files' = IF copied
                            THEN [moved EXCEPT ![target_env] = files[source_env]]
                            ELSE moved
                /\ mtime' = IF copied
                            THEN [mtime EXCEPT ![target_env] = mtime[source_env]]   \* copy2
                            ELSE mtime
                /\ saved' = IF copied THEN [saved EXCEPT ![target_env] = saved[source_env]]
                            ELSE IF renamed THEN [saved EXCEPT ![target_env] = NoGraph]
                            ELSE saved
                /\ last' = OpMigrate(source_env, target_env, copied)
                /\ UNCHANGED <<storeVars, now, data_file, last_save_time, config, prev_save,
                               saves, made, recVars>>

NextMigrate ==
    \/ Tick
    \/ Foreign({Garbage, NoProjectsKey})
    \/ \E source_env \in Envs, target_env \in Envs, platform \in Platforms,
          fault \in MigrateFaults :
            Migrate(source_env, target_env, platform, fault)

InitMigrate ==
    \E enabled \in BOOLEAN :
        InitWith([DefaultConfig EXCEPT !.backup_enabled = enabled], TimeRecord(0))

SpecMigrate == InitMigrate /\ [][NextMigrate]_vars

(***************************************************************************)
(* Data files of the persisted format that this Store did not write: the   *)
(* format gives "last_started": str|null and "is_running": bool, each on   *)
(* its own.                                                                *)
(***************************************************************************)
\* the time records a file of the format can hold for day 0
FormatRecords ==
    {[TimeRecord(0) EXCEPT !.last_started = started, !.is_running = running] :
        started \in {NoTime, IsoFormat(0)}, running \in BOOLEAN}

\* files of the format: project "alpha" selected, with one such record
FormatDocs ==
    {Json(Document(<<[Project("alpha", "DZ", "a") EXCEPT !.time_records = Table(0 :> r)]>>,
                   "a", None, 0, "development")) : r \in FormatRecords}

NextFormat ==
    \/ Tick
    \/ Foreign(FormatDocs)
    \/ LoadProjects
    \/ StartCurrentTimer
    \/ StopAllTimers

SpecFormat == InitEnv /\ [][NextFormat]_vars

(***************************************************************************)
(* One TimeRecord on its own.  A run of the record begins when it is       *)
(* started while not running and ends at the next stop; expected is the    *)
(* initial total plus max(1, elapsed) of every finished run.               *)
(***************************************************************************)
InitRecord ==
    \E n \in 0..MaxRecTotal : InitWith(DefaultConfig, [TimeRecord(0) EXCEPT !.total_seconds = n])

RecStart ==
    /\ rec.total_seconds < MaxRecTotal
    /\ rec' = start_timing(rec, now)
    /\ run_start' = IF run_start = NoRun THEN <<now>> ELSE run_start
    /\ last' = Op("start_timing", None, TRUE)
    /\ UNCHANGED <<storeVars, now, fileVars, expected, pc>>

RecStop ==
    /\ rec' = stop_timing(rec, now)
    /\ IF run_start # NoRun
       THEN /\ expected' = expected + Max(1, now - run_start[1])
            /\ run_start' = NoRun
       ELSE UNCHANGED <<expected, run_start>>
    /\ last' = Op("stop_timing",
                   IF rec.is_running /\ rec.last_started # NoTime
                   THEN <<now - FromIsoFormat(rec.last_started)>> ELSE <<>>,
                   TRUE)
    /\ UNCHANGED <<storeVars, now, fileVars, pc>>

\* rec.get_current_total_seconds(): last.arg holds the value returned
RecCurrentTotal ==
    /\ last' = Op("get_current_total_seconds", <<get_current_total_seconds(rec, now)>>, TRUE)
    /\ UNCHANGED <<storeVars, now, fileVars, recVars>>

NextRecord ==
    \/ Tick
    \/ RecStart
    \/ RecStop
    \/ RecCurrentTotal

SpecRecord == InitRecord /\ [][NextRecord]_vars

(***************************************************************************)
(* A wall clock that can be set back: datetime.now() is not monotonic.     *)
(***************************************************************************)
\* the wall clock is set back by one second
ClockBack ==
    /\ now > 0
    /\ now' = now - 1
    /\ last' = Op("clock_back", None, TRUE)
    /\ UNCHANGED <<storeVars, fileVars, recVars>>

\* a behaviour works on the Store, while the TimeRecord on its own is
\* untouched, or on that record, while the Store is empty; the Store is saved
\* once, as soon as a timer runs
OnStore == rec = TimeRecord(0)
OnRecord == projects = <<>>

NextClock ==
    \/ Tick
    \/ ClockBack
    \/ (OnStore /\ AddProject(OneProject))
    \/ (OnStore /\ SetCurrentProject(ProjectAliases))
    \/ (OnStore /\ SetCurrentSubActivity)
    \/ (OnStore /\ StartCurrentTimer)
    \/ (OnStore /\ StopAllTimers)
    \/ (OnStore /\ saves = 0 /\ last.name = "start_current_timer" /\ last.ret /\ SaveNow)
    \/ (OnRecord /\ RecStart)
    \/ (OnRecord /\ RecStop)

SpecClock == InitEnv /\ [][NextClock]_vars

(***************************************************************************)
(* TickTockWidget: the timer button and the shutdown.                      *)
(***************************************************************************)
\* close_app / _quit_application: stop_all_timers(), then
\* save_projects(force=True), with an I/O error striking the save at `fault`
CloseApp(fault) ==
    LET stopped == stop_all_timers(projects, now)
        content == files[data_file]
        backing == config.backup_enabled /\ Exists(content)
        wrote == fault \notin {"open", "write"}
    IN  /\ saves < MaxSaves
        /\ projects' = stopped
        /\ backups' = IF backing
                      THEN _create_backup(backups, data_file, content, now,
                                          config.max_backups, fault)
                      ELSE backups
        /\ made' = IF backing /\ fault # "backup" THEN made \cup {Timestamp(now)} ELSE made
        /\ mtime' = IF fault = "open" THEN mtime ELSE [mtime EXCEPT ![data_file] = now]
        /\ files' = IF fault = "open" THEN files
                    ELSE IF fault = "write" THEN [files EXCEPT ![data_file] = Garbage]
                    ELSE [files EXCEPT ![data_file] =
                            Json(Document(stopped, current_project_alias,
                                          current_sub_activity_alias, now,
                                          config.environment))]
        /\ saved' = IF fault = "open" THEN saved
                    ELSE [saved EXCEPT ![data_file] =
                            IF wrote
                            THEN Graph(stopped, current_project_alias,
                                       current_sub_activity_alias)
                            ELSE NoGraph]
        /\ last_save_time' = IF wrote THEN now ELSE last_save_time
        /\ saves' = IF wrote THEN saves + 1 ELSE saves
        /\ last' = Op("close_app", None, wrote)
        /\ UNCHANGED <<current_project_alias, current_sub_activity_alias, now, data_file,
                       config, prev_save, recVars>>

\* the application runs until it is closed
Open == last.name # "close_app"

NextClose ==
    \/ (Open /\ Tick)
    \/ (Open /\ AddProject(OneProject))
    \/ (Open /\ SetCurrentProject(ProjectAliases))
    \/ (Open /\ SetCurrentSubActivity)
    \/ (Open /\ StartCurrentTimer)
    \/ (Open /\ StopAllTimers)
    \/ (Open /\ \E fault \in Faults : CloseApp(fault))

SpecClose == InitEnv /\ [][NextClose]_vars

(***************************************************************************)
(* Two threads.  SystemTrayManager.start runs the tray icon in a thread of *)
(* its own, and the icon's Quit item calls TickTockWidget._quit_application *)
(* on that thread; the auto-save timer and the user's operations run on    *)
(* the UI thread.  save_projects is taken in two steps: up to the opening  *)
(* of the data file for writing, and from json.dump to its return.         *)
(***************************************************************************)
Writers == {th \in Threads : pc[th].at = "writing"}

\* save_projects(force=True) on thread th, up to  open(self.data_file, 'w'):
\* the data to write is prepared and the file is cut to nothing
OpenForWrite(th) ==
    /\ files' = [files EXCEPT ![data_file] = Garbage]
    /\ mtime' = [mtime EXCEPT ![data_file] = now]
    /\ saved' = [saved EXCEPT ![data_file] = NoGraph]
    /\ pc' = Table([o \in Threads |->
                IF o = th
                THEN [at |-> "writing", t |-> now,
                      graph |-> Graph(projects, current_project_alias,
                                      current_sub_activity_alias),
                      overlapped |-> Writers # {}]
                ELSE IF pc[o].at = "writing" THEN [pc[o] EXCEPT !.overlapped = TRUE]
                ELSE pc[o]])

\* save_projects on thread th, from json.dump to its return; what two
\* writers leave in the file is this writer's document or no JSON at all
CloseAfterWrite(th, after) ==
    LET w == pc[th]
        doc == Json(Document(w.graph.projects, w.graph.current_project_alias,
                             w.graph.current_sub_activity_alias, w.t, config.environment))
    IN  /\ w.at = "writing"
        /\ \E content \in (IF w.overlapped THEN {doc, Garbage} ELSE {doc}) :
              /\ files' = [files EXCEPT ![data_file] = content]
              /\ saved' = [saved EXCEPT ![data_file] =
                              IF content = doc THEN w.graph ELSE NoGraph]
        /\ mtime' = [mtime EXCEPT ![data_file] = now]
        /\ last_save_time' = w.t
        /\ pc' = [pc EXCEPT ![th] = At(after)]

\* the application runs until the quit path has reached sys.exit
Alive == pc["tray"].at # "done"
\* the UI thread is between two callbacks
UiIdle == Alive /\ pc["ui"].at = "idle"

\* schedule_auto_save on the UI thread, while its timer is not cancelled
AutoSaveOpen ==
    /\ UiIdle
    /\ pc["tray"].at = "idle"
    /\ OpenForWrite("ui")
    /\ last' = Op("schedule_auto_save", None, TRUE)
    /\ UNCHANGED <<storeVars, now, backups, data_file, last_save_time, config, prev_save,
                   saves, made, rec, run_start, expected>>

AutoSaveClose ==
    /\ Alive
    /\ CloseAfterWrite("ui", "idle")
    /\ last' = Op("save_projects", TRUE, TRUE)
    /\ UNCHANGED <<storeVars, now, backups, data_file, config, prev_save, saves, made,
                   rec, run_start, expected>>

\* the tray's Quit item: _quit_application cancels the timers, stops the
\* tray and calls stop_all_timers ...
TrayQuit ==
    /\ pc["tray"].at = "idle"
    /\ projects' = stop_all_timers(projects, now)
    /\ pc' = [pc EXCEPT !["tray"] = At("stopped")]
    /\ last' = Op("stop_all_timers", None, TRUE)
    /\ UNCHANGED <<current_project_alias, current_sub_activity_alias, now, fileVars,
                   rec, run_start, expected>>

\* ... then save_projects(force=True) ...
TrayQuitOpen ==
    /\ pc["tray"].at = "stopped"
    /\ OpenForWrite("tray")
    /\ last' = Op("_quit_application", None, TRUE)
    /\ UNCHANGED <<storeVars, now, backups, data_file, last_save_time, config, prev_save,
                   saves, made, rec, run_start, expected>>

\* ... and sys.exit
TrayQuitClose ==
    /\ CloseAfterWrite("tray", "done")
    /\ last' = Op("close_app", None, TRUE)
    /\ UNCHANGED <<storeVars, now, backups, data_file, config, prev_save, saves, made,
                   rec, run_start, expected>>

NextThreads ==
    \/ (Alive /\ Tick)
    \/ (UiIdle /\ AddProject(OneProject))
    \/ (UiIdle /\ SetCurrentProject(ProjectAliases))
    \/ (UiIdle /\ StartCurrentTimer)
    \/ (UiIdle /\ StopAllTimers)
    \/ AutoSaveOpen
    \/ AutoSaveClose
    \/ TrayQuit
    \/ TrayQuitOpen
    \/ TrayQuitClose

SpecThreads == InitEnv /\ [][NextThreads]_vars

RunningToday == {loc \in Running(projects) : loc[3] = Today}

RunningOn(d) == {loc \in Running(projects) : loc[3] = d}

C2_RunningBelongsToCurrent ==
    (last.name = "start_current_timer" /\ last.ret = TRUE) =>
        \A loc \in Running(projects) :
            /\ projects[loc[1]].alias = current_project_alias
            /\ loc[2] # 0 =>
                  loc[2] = get_sub_activity(projects[loc[1]], current_sub_activity_alias)

\* the selection names a project and a sub-activity of it
SubSelected ==
    /\ get_project(projects, current_project_alias) # 0
    /\ current_sub_activity_alias # None
    /\ get_sub_activity(projects[get_project(projects, current_project_alias)],
                        current_sub_activity_alias) # 0

IsRunningToday(recs) == Today \in DOMAIN recs /\ recs[Today].is_running

C5_SetCurrentProject ==
    last.name = "set_current_project" =>
        IF get_project(projects, last.arg) # 0
        THEN /\ last.ret = TRUE
             /\ current_project_alias = last.arg
             /\ current_sub_activity_alias = None
        ELSE /\ last.ret = FALSE
             /\ <<current_project_alias, current_sub_activity_alias>> = last.before

\* another project was selected while a sub-activity was selected
C5_Witness ==
    /\ last.name = "set_current_project"
    /\ last.ret = TRUE
    /\ last.before[1] # last.arg
    /\ last.before[2] # None
    /\ current_sub_activity_alias = None

\* C6: when current_sub_activity_alias is set, current_project_alias names a
\* project of the Store and that project has a sub-activity with the alias.
C6_SubSelectionExists == current_sub_activity_alias # None => SubSelected

\* C4: after any sequence of start_timing and stop_timing calls, total_seconds
\* is the initial total plus, for every run from a start to the next stop,
\* max(1, elapsed seconds of the run).
C4_TotalIsSumOfRuns == rec.total_seconds = expected

\* C7: a successful save(force=true) followed by a load, by the same Store or
\* by a fresh one on the same file, yields the graph and the selection that
\* were saved: projects in order, sub-activities, every record, both pointers.
C7_RoundTrip ==
    (last.name = "load_projects" /\ saved[data_file] # NoGraph) =>
        /\ ~last.raised
        /\ last.ret = TRUE
        /\ Graph(projects, current_project_alias, current_sub_activity_alias)
              = saved[data_file]

\* a fresh Store has loaded two projects, a selected sub-activity and running
\* records
C7_Witness ==
    /\ last.name = "load_projects"
    /\ last.ret = TRUE
    /\ last_save_time # now
    /\ Len(projects) = 2
    /\ SubSelected
    /\ Cardinality(Running(projects)) = 2

\* the step is a call save(force=False) on which no I/O error strikes
UnforcedSave == last'.name = "save_projects" /\ SaveProjects(FALSE, "none")

\* the step is a second save(force=False), less than the interval after the
\* one before it, and no I/O error strikes on either
SecondUnforcedSave ==
    /\ prev_save # NoCall
    /\ ~prev_save.failed
    /\ now - prev_save.t < AutoSaveInterval
    /\ UnforcedSave

C9_ExactlyKBackups ==
    (config.backup_enabled /\ saves > config.max_backups) =>
        LET kept == {n.ts : n \in BackupsOf(backups, data_file)}
        IN  /\ Cardinality(kept) = config.max_backups
            /\ \A k \in kept, m \in made \ kept : m < k

\* C10: load() on a malformed data file does not raise, returns false and
\* leaves the Store with no project and no selection.
C10_MalformedLoadEmpties ==
    (last.name = "load_projects" /\ files[data_file] \in Malformed) =>
        /\ ~last.raised
        /\ last.ret = FALSE
        /\ projects = <<>>
        /\ current_project_alias = None
        /\ current_sub_activity_alias = None

\* C11: load() on a well-formed file without the 'projects' key raises nothing
\* and leaves the Store with no project, whatever it held before.
C11_NoProjectsKeyEmpties ==
    (last.name = "load_projects" /\ files[data_file] = NoProjectsKey) =>
        /\ ~last.raised
        /\ projects = <<>>

\* C12: when the file write of save() fails with an I/O error, on opening the
\* file or part-way through writing it, save() returns false, the graph and the
\* selection are unchanged and the data file holds what it held before.
C12_FailedWriteLeavesFile ==
    [][(/\ last'.name = "save_projects"
        /\ \E force \in BOOLEAN, fault \in {"open", "write"} : SaveProjects(force, fault))
       => /\ last'.ret = FALSE
          /\ ~last'.raised
          /\ storeVars' = storeVars
          /\ files' = files]_vars

\* C13: start_current_timer() with no current project (no alias selected, or
\* one that names no project) returns false, starts no record and stops no
\* running record.
C13_NoProjectNoChange ==
    [][(/\ last'.name = "start_current_timer"
        /\ get_current_project(projects, current_project_alias) = 0
        /\ StartCurrentTimer)
       => /\ last'.ret = FALSE
          /\ Running(projects') = Running(projects)
          /\ TotalBanked(projects') = TotalBanked(projects)]_vars

\* C14: when a timer started on day D is stopped by stop_all_timers() after the
\* date has become D+1, the record keyed D takes the elapsed time and stops
\* running: after stop_all_timers() no record of an earlier day is running.
C14_StopClosesStartDay ==
    last.name = "stop_all_timers" =>
        \A loc \in Running(projects) : loc[3] >= Today

\* the aliases of the projects are pairwise distinct
DistinctAliases(seq) ==
    \A i, j \in 1..Len(seq) : i # j => seq[i].alias # seq[j].alias

\* the alias add_project stores a project under: its name when the alias is blank
StoredAlias(inp) == IF Strip(inp[2]) = "" THEN inp[1] ELSE inp[2]

\* C15: after any add_project and remove_project calls the project aliases are
\* pairwise distinct; add_project with an alias already present (the name
\* standing for a blank alias) returns None and leaves the list unchanged,
\* otherwise it appends exactly one project under that alias.
C15_UniqueProjectAliases ==
    /\ []DistinctAliases(projects)
    /\ [][\A inp \in BlankInputs :
            (last'.name = "add_project" /\ AddProject({inp})) =>
                IF \E i \in 1..Len(projects) : projects[i].alias = StoredAlias(inp)
                THEN /\ last'.ret = FALSE
                     /\ projects' = projects
                ELSE /\ last'.ret = TRUE
                     /\ projects' = Append(projects, Project(inp[1], "DZ", StoredAlias(inp)))
         ]_vars

\* add_project was refused for a project stored under its name
C15_Witness ==
    /\ last.name = "add_project"
    /\ last.ret = FALSE
    /\ Len(projects) = 1
    /\ projects[1].alias = projects[1].name

\* C16: within one project the sub-activity aliases are pairwise distinct
\* (add_sub_activity with an alias already used is rejected).
C16_UniqueSubAliases ==
    \A i \in 1..Len(projects) : DistinctAliases(projects[i].sub_activities)

\* the projects of seq whose alias is not the given one, in order
Without(seq, alias) == SelectSeq(seq, LAMBDA p : p.alias # alias)

\* C17: remove_project(alias) of a known alias removes that project and
\* returns True, clearing both selection pointers if it was the current
\* project and leaving them alone otherwise; of an unknown alias it returns
\* False and changes nothing in the Store.
C17_RemoveProject ==
    [][\A alias \in BlankAliases :
        (last'.name = "remove_project" /\ RemoveProject({alias})) =>
            IF \E i \in 1..Len(projects) : projects[i].alias = alias
            THEN /\ last'.ret = TRUE
                 /\ projects' = Without(projects, alias)
                 /\ Len(projects') = Len(projects) - 1
                 /\ IF current_project_alias = alias
                    THEN /\ current_project_alias' = None
                         /\ current_sub_activity_alias' = None
                    ELSE /\ current_project_alias' = current_project_alias
                         /\ current_sub_activity_alias' = current_sub_activity_alias
            ELSE /\ last'.ret = FALSE
                 /\ storeVars' = storeVars
      ]_vars

\* the current project, with a sub-activity selected, was removed
C17_Witness ==
    /\ last.name = "remove_project"
    /\ last.ret = TRUE
    /\ last.before[1] = last.arg
    /\ last.before[2] # None
    /\ current_project_alias = None
    /\ current_sub_activity_alias = None

\* the positions of the projects the current-project pointer names
Selected == {i \in 1..Len(projects) : projects[i].alias = current_project_alias}

\* C18: set_current_sub_activity(a), a not None and naming no sub-activity of
\* the current project: if a is whitelisted and a current project exists,
\* exactly one sub-activity a is created, under the current project only, it
\* becomes the selection and True is returned; otherwise False is returned,
\* no sub-activity is created and the selection is unchanged.
C18_WhitelistAutoCreate ==
    [][(/\ last'.name = "set_current_sub_activity"
        /\ last'.arg # None
        /\ \A i \in Selected : get_sub_activity(projects[i], last'.arg) = 0
        /\ SetCurrentSubActivity) =>
            IF last'.arg \in Whitelist /\ current_project_alias # None /\ Selected # {}
            THEN /\ last'.ret = TRUE
                 /\ current_sub_activity_alias' = last'.arg
                 /\ Len(projects') = Len(projects)
                 /\ \A i \in 1..Len(projects) :
                        IF i \in Selected
                        THEN projects'[i] = add_sub_activity(projects[i], last'.arg, last'.arg)
                        ELSE projects'[i] = projects[i]
            ELSE /\ last'.ret = FALSE
                 /\ projects' = projects
                 /\ current_sub_activity_alias' = current_sub_activity_alias
      ]_vars

\* the Store holds no project and no selection
EmptyStore ==
    /\ projects = <<>>
    /\ current_project_alias = None
    /\ current_sub_activity_alias = None

\* C19 as stated: switch_environment(target) called when the target
\* environment has no data file returns True and leaves an empty Store on the
\* target's file.
C19_NoFileStartsFresh ==
    (last.name = "switch_environment" /\ ~last.had_file) =>
        /\ last.ret = TRUE
        /\ ~last.raised
        /\ EmptyStore
        /\ data_file = last.arg

\* C19: switch_environment(target) whose load finds no data file for the
\* target environment (after the forced save has run) returns True and leaves
\* an empty Store on the target's file.
C19_NoFileAtLoadStartsFresh ==
    (last.name = "switch_environment" /\ ~last.found) =>
        /\ last.ret = TRUE
        /\ ~last.raised
        /\ EmptyStore
        /\ data_file = last.arg
        /\ config.environment = last.arg

\* a Store with a project and a selection was switched to an environment
\* without a file
C19_Witness ==
    /\ last.name = "switch_environment"
    /\ ~last.found
    /\ last.arg # last.from
    /\ last.before.projects # <<>>
    /\ last.before.current_project_alias # None
    /\ last.ret = TRUE
    /\ EmptyStore

\* C20: whenever switch_environment(target) returns True, the data file of
\* the environment it was called in holds the projects and the selection as
\* they were in memory immediately before the switch.
C20_SourceSavedBeforeSwitch ==
    (last.name = "switch_environment" /\ last.ret = TRUE /\ ~last.raised) =>
        saved[last.from] = last.before

\* C21: migrate_data_file(source_env, target_env) with no file for the source
\* environment returns False, leaves every data file as it is (content and
\* modification time) and leaves the backup directory as it is.
C21_AbsentSourceNoChange ==
    [][\A source_env \in Envs, target_env \in Envs :
        (/\ last'.name = "migrate_data_file"
         /\ last'.arg = <<source_env, target_env>>
         /\ ~Exists(files[source_env])
         /\ \E platform \in Platforms, fault \in MigrateFaults :
                Migrate(source_env, target_env, platform, fault)) =>
            /\ last'.ret = FALSE
            /\ files' = files
            /\ mtime' = mtime
            /\ backups' = backups
      ]_vars

\* a migration from a missing source onto an existing target, backups enabled
C21_Witness ==
    /\ last.name = "migrate_data_file"
    /\ ~last.had_source
    /\ last.had_target
    /\ last.backing
    /\ last.ret = FALSE
    /\ Exists(files[last.arg[2]])

\* C22: whenever migrate_data_file overwrote a target file that existed, the
\* target's previous content is afterwards a file of the backup directory,
\* and no backup file that existed before was overwritten (backups enabled
\* or not).
C22_NeverClobbers ==
    [][\A source_env \in Envs, target_env \in Envs :
        (/\ last'.name = "migrate_data_file"
         /\ last'.arg = <<source_env, target_env>>
         /\ Exists(files[target_env])
         /\ last'.ret = TRUE
         /\ \E platform \in Platforms, fault \in MigrateFaults :
                Migrate(source_env, target_env, platform, fault)) =>
            /\ \E n \in DOMAIN backups' : backups'[n] = files[target_env]
            /\ \A n \in DOMAIN backups : n \in DOMAIN backups' /\ backups'[n] = backups[n]
      ]_vars

\* C23: in every TimeRecord of the Store, whether made by get_today_record,
\* changed by the timers or loaded from a file of the persisted format,
\* last_started is set if and only if is_running is true.
C23_StartedIffRunning ==
    \A loc \in Locs(projects) :
        loc[3] \in DOMAIN RecordsAt(projects, loc) =>
            LET r == RecordsAt(projects, loc)[loc[3]]
            IN  (r.last_started # NoTime) <=> r.is_running

\* the records of the graph that stop_timing acts on
Stoppable(ps) ==
    {loc \in Running(ps) : RecordsAt(ps, loc)[loc[3]].last_started # NoTime}

\* C24: no step decreases the total_seconds of a TimeRecord that stays in the
\* graph, wherever the clock stands (also before the instant of the start),
\* and every stop_timing of a running record adds at least 1 to it.
C24_TotalNeverDecreases ==
    [][/\ rec'.total_seconds >= rec.total_seconds
       /\ (last'.name = "stop_timing" /\ rec.is_running /\ rec.last_started # NoTime) =>
            rec'.total_seconds >= rec.total_seconds + 1
       /\ \A loc \in Locs(projects) :
            loc[3] \in DOMAIN RecordsAt(projects, loc) =>
                /\ loc[3] \in DOMAIN RecordsAt(projects', loc)
                /\ RecordsAt(projects', loc)[loc[3]].total_seconds >=
                       RecordsAt(projects, loc)[loc[3]].total_seconds
       /\ last'.name \in {"stop_all_timers", "start_current_timer"} =>
            \A loc \in Stoppable(projects) :
                loc[3] = Today =>
                    RecordsAt(projects', loc)[loc[3]].total_seconds >=
                        RecordsAt(projects, loc)[loc[3]].total_seconds + 1
      ]_vars

\* a record was stopped while the clock stood before the instant of its start
C24_Witness ==
    /\ last.name = "stop_timing"
    /\ last.arg # <<>>
    /\ last.arg[1] < 0
    /\ ~rec.is_running
    /\ rec.total_seconds = 1

\* C25: after stop_all_timers() no today-record of a project or of a
\* sub-activity is running, and a second call at the same instant changes no
\* record.
C25_StopAllIdempotentTotal ==
    last.name = "stop_all_timers" =>
        /\ RunningToday = {}
        /\ stop_all_timers(projects, now) = projects

\* the projects a data file holds
Decoded(f) ==
    Table([i \in 1..Len(f.data.projects) |-> ProjectFromDict(f.data.projects[i])])

\* C26: after a shutdown whose save succeeded, the data file holds no
\* TimeRecord with is_running = true, and it holds the records of the Store
\* as stop_all_timers left them.
C26_ShutdownStopsThenSaves ==
    (last.name = "close_app" /\ last.ret = TRUE) =>
        /\ Running(Decoded(files[data_file])) = {}
        /\ Decoded(files[data_file]) = projects

\* C27: a stop_all_timers() that stops a running record leaves the banked
\* total_seconds of that record in the data file, with no save call after it.
C27_StopFlushes ==
    [][(/\ last'.name = "stop_all_timers"
        /\ TotalBanked(projects') > TotalBanked(projects)) =>
            /\ Exists(files'[data_file])
            /\ files'[data_file].kind = "json"
            /\ Decoded(files'[data_file]) = projects'
      ]_vars

\* C28: last_save_time changes only on a successful write: a save_projects
\* that returns False, debounced or failed, leaves it as it was (and with it
\* the debounce of the saves that follow), one that returns True sets it to
\* the instant of the call, and nothing else but a new Store changes it.
C28_StampOnlyOnSuccess ==
    [][/\ last'.name = "save_projects" =>
            IF last'.ret
            THEN last_save_time' = now
            ELSE /\ last_save_time' = last_save_time
                 /\ \A t \in now..MaxTime :
                        Debounced(FALSE, t, last_save_time') =
                            Debounced(FALSE, t, last_save_time)
       /\ last_save_time' # last_save_time =>
            \/ last'.name = "save_projects" /\ last'.ret
            \/ last'.name = "init"
      ]_vars

\* a save that was due failed with an I/O error after an earlier save had
\* succeeded
C28_Witness ==
    /\ last.name = "save_projects"
    /\ last.arg = FALSE
    /\ last.ret = FALSE
    /\ prev_save # NoCall
    /\ prev_save.failed
    /\ prev_save.t = now
    /\ last_save_time >= 0
    /\ ~Debounced(FALSE, now, last_save_time)

\* C29: an I/O error while the backup is created, or while old backups are
\* deleted, does not abort the save: no save_projects that is due returns
\* False with such an error, and every save_projects that returns True has
\* written the whole graph to the data file, no exception leaving it.
C29_BackupFailureNoAbort ==
    [][/\ (/\ last'.name = "save_projects"
           /\ last'.ret = FALSE
           /\ ~Debounced(last'.arg, now, last_save_time)) =>
            ~ \E fault \in {"backup", "cleanup"} : SaveProjects(last'.arg, fault)
       /\ (last'.name = "save_projects" /\ last'.ret = TRUE) =>
            /\ ~last'.raised
            /\ files'[data_file] =
                   Json(Document(projects, current_project_alias,
                                 current_sub_activity_alias, now, config.environment))
            /\ Decoded(files'[data_file]) = projects
      ]_vars

\* a save has succeeded although the deletion of old backups failed: more
\* backups than max_backups are left
C29_Witness ==
    /\ last.name = "save_projects"
    /\ last.ret = TRUE
    /\ config.backup_enabled
    /\ config.max_backups > 0
    /\ Cardinality(BackupsOf(backups, data_file)) > config.max_backups
    /\ files[data_file].kind = "json"
    /\ Decoded(files[data_file]) = projects

\* C30: for every max_backups >= 0, after a save whose backup and cleanup
\* ran without I/O error, the data file has at most max_backups backup files.
C30_AtMostMaxBackups ==
    [][(/\ last'.name = "save_projects"
        /\ config.backup_enabled
        /\ Exists(files[data_file])
        /\ ~Debounced(last'.arg, now, last_save_time)
        /\ SaveProjects(last'.arg, "none")) =>
            Cardinality(BackupsOf(backups', data_file)) <= config.max_backups
      ]_vars

\* C31: the backup of a save is taken before the data file is overwritten:
\* a backup file that a save_projects creates or changes is the one named by
\* the instant of the save and holds the content the data file had before the
\* save; a save with backups enabled that meets no I/O error and finds the
\* data file leaves such a backup; a save that finds no data file leaves the
\* backup directory as it is.
C31_BackupBeforeOverwrite ==
    [][last'.name = "save_projects" =>
        /\ \A n \in DOMAIN backups' :
              (n \notin DOMAIN backups \/ backups'[n] # backups[n]) =>
                  /\ config.backup_enabled
                  /\ Exists(files[data_file])
                  /\ n = BackupName(data_file, now)
                  /\ backups'[n] = files[data_file]
        /\ ~Exists(files[data_file]) => backups' = backups
        /\ (/\ config.backup_enabled
            /\ Exists(files[data_file])
            /\ last'.ret = TRUE
            /\ SaveProjects(last'.arg, "none")) =>
              /\ BackupName(data_file, now) \in DOMAIN backups'
              /\ backups'[BackupName(data_file, now)] = files[data_file]
      ]_vars

\* a save has left a backup that holds the older content of the data file
C31_Witness ==
    /\ last.name = "save_projects"
    /\ last.ret = TRUE
    /\ config.backup_enabled
    /\ BackupName(data_file, now) \in DOMAIN backups
    /\ files[data_file].kind = "json"
    /\ backups[BackupName(data_file, now)] # files[data_file]
    /\ backups[BackupName(data_file, now)].kind = "json"
    /\ Decoded(backups[BackupName(data_file, now)]) # projects

\* the data file f is well-formed and holds exactly the projects ps
Holds(f, ps) ==
    /\ Exists(f)
    /\ f.kind = "json"
    /\ "projects" \in DOMAIN f.data
    /\ \A i \in 1..Len(f.data.projects) : ProjectEntryOk(f.data.projects[i])
    /\ Decoded(f) = ps

\* C32: after switch_environment(target) to another environment, whatever
\* its result, the graph in memory is the content of the target's data file
\* or empty: it is never still the previous environment's projects.
C32_EnvironmentIsolation ==
    (last.name = "switch_environment" /\ last.arg # last.from) =>
        \/ projects = <<>>
        \/ Holds(files[data_file], projects)

\* total_seconds of today's record of a container, 0 when it has none yet
TodaySeconds(recs) == IF Today \in DOMAIN recs THEN recs[Today].total_seconds ELSE 0

SubSeconds(p) ==
    SumSeq([k \in 1..Len(p.sub_activities) |-> TodaySeconds(p.sub_activities[k].time_records)])

RunsToday(recs) == Today \in DOMAIN recs /\ recs[Today].is_running

\* the project's time today is the time of its sub-activities, and it runs
\* exactly when one of them runs, started at the same instant
Paired(p) ==
    /\ TodaySeconds(p.time_records) = SubSeconds(p)
    /\ LET on == {k \in 1..Len(p.sub_activities) : RunsToday(p.sub_activities[k].time_records)}
       IN  IF RunsToday(p.time_records)
           THEN /\ Cardinality(on) = 1
                /\ \A k \in on : p.sub_activities[k].time_records[Today].last_started
                                    = p.time_records[Today].last_started
           ELSE on = {}

AllPaired(ps) == \A i \in 1..Len(ps) : Paired(ps[i])

C34_NoOpCases ==
    [][/\ (last'.name = "start_timing" /\ rec.is_running) => rec' = rec
       /\ (last'.name = "stop_timing" /\ ~rec.is_running) => rec' = rec]_vars

\* C35: the data file is never open for writing on two threads at once:
\* the quit path of the tray thread does not write while a save of the UI
\* thread is under way.
C35_SingleWriter == Cardinality(Writers) <= 1

\* C36: in every state of the Store every running TimeRecord belongs to the
\* project named by current_project_alias or to one of its sub-activities.
C36_RunningOnlyInCurrentProject ==
    \A loc \in Running(projects) : projects[loc[1]].alias = current_project_alias

\* C37: get_current_total_seconds() leaves the record as it is and returns
\* total_seconds for a record that is not running; for a running record it
\* returns, at instant t, the total_seconds the record has after stop_timing()
\* at t, which is total_seconds + max(1, t - last_started).
C37_LiveTotalIsBankedTotal ==
    [][last'.name = "get_current_total_seconds" =>
         /\ rec' = rec
         /\ ~rec.is_running => last'.arg = <<rec.total_seconds>>
         /\ rec.is_running =>
               /\ last'.arg = <<stop_timing(rec, now).total_seconds>>
               /\ last'.arg = <<rec.total_seconds +
                                  Max(1, now - FromIsoFormat(rec.last_started))>>]_vars

C37_Witness ==
    /\ last.name = "get_current_total_seconds"
    /\ rec.is_running
    /\ rec.total_seconds > 0
    /\ last.arg = <<rec.total_seconds + 2>>

\* C38: migrate_data_file(source_env, target_env) leaves the source
\* environment's data file in place with its content, for every pair of
\* environments, source_env = target_env included.
C38_SourceFileKept ==
    [][last'.name = "migrate_data_file" =>
         files'[last'.arg[1]] = files[last'.arg[1]]]_vars

\* C39: once set_current_project(alias) has returned true for a project of
\* the Store, whatever its name and alias, get_current_project() returns that
\* project (and start_current_timer(), which starts the project that
\* get_current_project() returns, returns true).
C39_SelectedProjectIsCurrent ==
    (last.name = "set_current_project" /\ last.ret = TRUE) =>
        LET i == get_current_project(projects, current_project_alias)
        IN  /\ i # 0
            /\ projects[i].alias = last.arg

====
